---- MODULE Spec2Model ----
(***************************************************************************)
(* Model of ss::SessionImp / ss::Session (src/ss/Session.cpp) and of       *)
(* hl::RequestHandler::handle (src/hl/RequestHandler.cpp).                 *)
(*                                                                         *)
(* One session is modelled: its socket, its two buffers, the position of   *)
(* its stackless coroutine, the asynchronous operations it has issued on   *)
(* the io_context (outstanding, or completed and waiting for delivery),    *)
(* and the close signal towards the owning Session object.                 *)
(***************************************************************************)
EXTENDS Integers, Sequences, FiniteSets, TLC

\* ------------------------------------------------------------------ bounds
\* longest byte sequence one async_read_until completion appends to req_
MaxRead == 3
\* number of external Session::close() calls the owner makes
MaxExternalClose == 2
\* most bytes a read that fails has received, or a write that fails has sent
MaxPartialIo == 1

\* --------------------------------------------------------------- alphabet
DATA_DELIMITER == "\n"
\* payload bytes other than the delimiter
Payload == {"a", "b"}
Byte == Payload \cup {DATA_DELIMITER}

SeqsUpTo(S, n) == UNION {[1..k -> S] : k \in 0..n}

HasDelimiter(buf) == \E i \in 1..Len(buf) : buf[i] = DATA_DELIMITER

VARIABLES
  coro,          \* asio::coroutine position of SessionImp
  req_,          \* request buffer
  res_,          \* response buffer
  sockOpen,      \* sock_.is_open()
  connected,     \* closeConnection.connected(): atClose_ still calls mainClose
  ownerAlive,    \* the owning Session object exists
  ops,           \* asynchronous operations issued and not yet delivered
  closeCalls,    \* history: executions of SessionImp::close
  sockReleases,  \* history: executions of the cancel/shutdown/close block
  notified,      \* history: invocations of the owner's closed signal
  extCloses,     \* history: Session::close() calls made by the owner
  unwritten,     \* history: a frame was dispatched, its write not yet completed
  ev             \* history: what the last run of operator() did

vars == <<coro, req_, res_, sockOpen, connected, ownerAlive, ops, closeCalls,
          sockReleases, notified, extCloses, unwritten, ev>>

\* ------------------------------------------------------- frame splitting
\* faulty variant: a split that also yields the empty segment after a final
\* delimiter
RECURSIVE SplitKeepingTrailingEmpty(_)
SplitKeepingTrailingEmpty(buf) ==
  IF ~HasDelimiter(buf) THEN <<buf>>
  ELSE LET i == CHOOSE j \in 1..Len(buf) :
                  /\ buf[j] = DATA_DELIMITER
                  /\ \A k \in 1..(j-1) : buf[k] # DATA_DELIMITER
       IN <<SubSeq(buf, 1, i-1)>>
            \o SplitKeepingTrailingEmpty(SubSeq(buf, i+1, Len(buf)))

\* std::sregex_token_iterator{begin, end, regByDelimiter, -1}: the prefix of
\* every match (empty ones included), then the suffix after the last match
\* only when it is not empty; with no match at all, the whole range.
RECURSIVE Tokens(_)
Tokens(buf) ==
  IF ~HasDelimiter(buf) THEN <<buf>>
  ELSE LET i == CHOOSE j \in 1..Len(buf) :
                  /\ buf[j] = DATA_DELIMITER
                  /\ \A k \in 1..(j-1) : buf[k] # DATA_DELIMITER
           rest == SubSeq(buf, i+1, Len(buf))
       IN IF rest = <<>> THEN <<SubSeq(buf, 1, i-1)>>
          ELSE <<SubSeq(buf, 1, i-1)>> \o Tokens(rest)

\* for (; std::next(requestIterator) != end; ++requestIterator,
\*        ++ignoreRequestCounter) {}
RECURSIVE SkipLoop(_, _, _)
SkipLoop(tokens, it, cnt) ==
  IF it + 1 <= Len(tokens) THEN SkipLoop(tokens, it + 1, cnt + 1)
  ELSE [it |-> it, ignoreRequestCounter |-> cnt]

\* faulty variant: the iterator is left on the first token
NoSkip(tokens) == [it |-> 1, ignoreRequestCounter |-> 0]

\* the iterator and the counter after the loop
LastRequest(tokens) == SkipLoop(tokens, 1, 0)

\* *req_.rbegin() == DATA_DELIMITER (req_ is never empty here: a read that
\* completed without error left a delimiter in it)
EndsWithDelimiter(buf) == buf # <<>> /\ buf[Len(buf)] = DATA_DELIMITER

\* requestIterator->str() after the loop
DispatchedFrame(buf) == Tokens(buf)[LastRequest(Tokens(buf)).it]

\* faulty variant: the buffer is left as it is
KeepWholeBuffer(buf, tok) == buf

\* faulty variant: the buffer is cleared
DropPartial(buf, tok) == <<>>

\* req_ = requestIterator->str()
RetainPartial(buf, tok) == tok

\* ------------------------------------------------- hl::RequestHandler
SUCCESS_CODE == "SUCCESS"
FAILURE_CODE == "FAILURE"

\* tokenizer::TokenizerFactory::getTokenizer(buf_type) # nullptr
RegisteredTypes == {"cpp"}

NoRequest ==
  [msg_num |-> 0, id |-> 0, buf_type |-> "", buf_name |-> "",
   buf_body |-> <<>>]

\* RequestObject{request}: the constructor throws on a malformed frame.  The
\* wire format of the model: the first byte names the type ("a" the
\* registered one, "b" an unregistered one), the rest is the body; the empty
\* frame is malformed.
ParseRequest(request) ==
  IF request = <<>>
  THEN [thrown |-> TRUE, what |-> <<"parse error">>, request |-> NoRequest]
  ELSE [thrown |-> FALSE, what |-> <<>>,
        request |-> [msg_num |-> 1, id |-> 2,
                     buf_type |-> IF request[1] = "a" THEN "cpp" ELSE "xyz",
                     buf_name |-> "f",
                     buf_body |-> Tail(request)]]

\* tokenizer->tokenize(buf_name, buf_body, additional_info, tokens): one
\* token per byte of the body up to the first "b", which it reports as an
\* error in its status text (empty for success)
RECURSIVE Tokenize(_)
Tokenize(body) ==
  IF body = <<>> THEN [status |-> <<>>, tokens |-> <<>>]
  ELSE IF Head(body) = "b" THEN [status |-> <<"bad token">>, tokens |-> <<>>]
  ELSE LET r == Tokenize(Tail(body))
       IN [status |-> r.status, tokens |-> <<"t">> \o r.tokens]

ResponseObject(num, id, type, name, code, message, tokens) ==
  [msg_num |-> num, id |-> id, buf_type |-> type, buf_name |-> name,
   return_code |-> code, error_message |-> message, tokens |-> tokens]

NumStr(n) == CASE n = 0 -> "0" [] n = 1 -> "1" [] n = 2 -> "2"

\* responseObject.dump(response): the fields in order, bracketed, appended to
\* the output buffer
Dump(r) ==
  <<"{", NumStr(r.msg_num), NumStr(r.id), r.buf_type, r.buf_name,
    r.return_code, "[">> \o r.error_message \o <<"]", "[">> \o r.tokens
    \o <<"]", "}">>

\* faulty variant: the catch block does not return, the lookup goes on with
\* the default request
ParseFailureThenLookup(parsed) ==
  [object |-> ResponseObject(0, 0, "", "", FAILURE_CODE,
                <<"couldn't get tokenizer for buffer type: ", "">>, <<>>),
   path |-> "unknown_type", calls |-> <<"getTokenizer">>]

\* catch (std::exception & e): the response for a frame that does not parse;
\* handle returns before the factory is asked for a tokenizer
ParseFailureResponse(parsed) ==
  [object |-> ResponseObject(0, 0, "", "", FAILURE_CODE, parsed.what, <<>>),
   path |-> "parse_error", calls |-> <<>>]

\* faulty variant: the request's fields are not copied to the response
NoTokenizerAnonymous(rq) ==
  [object |-> ResponseObject(0, 0, "", "", FAILURE_CODE,
                <<"couldn't get tokenizer for buffer type: ">>, <<>>),
   path |-> "unknown_type", calls |-> <<"getTokenizer">>]

\* if (tokenizer == nullptr): the response for a type without a tokenizer
NoTokenizerResponse(rq) ==
  [object |-> ResponseObject(rq.msg_num, rq.id, rq.buf_type, rq.buf_name,
                FAILURE_CODE,
                <<"couldn't get tokenizer for buffer type: ", rq.buf_type>>,
                <<>>),
   path |-> "unknown_type", calls |-> <<"getTokenizer">>]

\* faulty variant: the status text does not decide the return code
TokenizedAlwaysSuccess(rq, tokenized) ==
  [object |-> ResponseObject(rq.msg_num, rq.id, rq.buf_type, rq.buf_name,
                SUCCESS_CODE, tokenized.status, tokenized.tokens),
   path |-> IF tokenized.status = <<>> THEN "ok" ELSE "tokenizer",
   calls |-> <<"getTokenizer", "tokenize">>]

\* the response after tokenizer->tokenize returned its status text and tokens
TokenizedResponse(rq, tokenized) ==
  [object |-> ResponseObject(rq.msg_num, rq.id, rq.buf_type, rq.buf_name,
                IF tokenized.status = <<>> THEN SUCCESS_CODE
                ELSE FAILURE_CODE,
                tokenized.status, tokenized.tokens),
   path |-> IF tokenized.status = <<>> THEN "ok" ELSE "tokenizer",
   calls |-> <<"getTokenizer", "tokenize">>]

\* the response object RequestHandler::handle builds for a request, the
\* path it took and the collaborators it called on the way
BuildResponse(request) ==
  LET parsed == ParseRequest(request) IN
  IF parsed.thrown
  THEN ParseFailureResponse(parsed)
  ELSE LET rq == parsed.request IN
       IF rq.buf_type \notin RegisteredTypes
       THEN NoTokenizerResponse(rq)
       ELSE TokenizedResponse(rq, Tokenize(rq.buf_body))

\* faulty variant: a failure response is also reported as a failing error
\* code
handleFailingOnPayloadError(request, response) ==
  LET b == BuildResponse(request)
  IN [failed |-> b.object.return_code = FAILURE_CODE,
      response |-> response \o Dump(b.object),
      object |-> b.object, path |-> b.path, calls |-> b.calls]

\* RequestHandler::handle(request, response): returnCode is never set, so
\* the error code returned never reports a failure
handle(request, response) ==
  LET b == BuildResponse(request)
  IN [failed |-> FALSE, response |-> response \o Dump(b.object),
      object |-> b.object, path |-> b.path, calls |-> b.calls]

NoObject == ResponseObject(0, 0, "", "", "", <<>>, <<>>)

\* every result of handler->handle(frame, res_) for the handler the factory
\* returned: the repository's RequestHandler, or another implementation of
\* the Handler interface, which may fail or leave the output empty
HandleResults(impl, request, response) ==
  IF impl = "hl"
  THEN {handle(request, response)}
  ELSE {[failed |-> f, response |-> response \o o, object |-> NoObject,
         path |-> "other", calls |-> <<>>] :
          f \in BOOLEAN, o \in {<<>>, <<"r">>}}

\* ------------------------------------------------------------ SessionImp
\* faulty variant: the handler is bound to this alone and keeps nothing alive
BindThisOnly(self) == FALSE

\* std::bind(&SessionImp::operator(), this, std::move(self), _1, _2): the
\* handler holds the reference self held (TRUE: a live one, FALSE: an empty,
\* moved-from one)
BoundSelf(self) == self

\* an asynchronous operation handed to the io_context: pending until the
\* I/O layer completes it, then waiting with its error code for delivery.
\* n is the bytes transferred; base is req_ as it was when a read was issued.
\* An operation started on a closed socket completes with an error at once.
Operation(kind, open, base, self) ==
  [kind |-> kind, status |-> IF open THEN "pending" ELSE "err", n |-> 0,
   base |-> base, self |-> BoundSelf(self)]

\* use_count of the shared_ptr<SessionImp>: Session::imp_ while the Session
\* lives, and the copy every handler that has not run yet holds
ImpRefs ==
  (IF ownerAlive THEN 1 ELSE 0)
    + Cardinality({i \in DOMAIN ops : ops[i].self})

Remove(q, i) == SubSeq(q, 1, i-1) \o SubSeq(q, i+1, Len(q))

\* sock_.cancel(): every operation still pending completes with
\* operation_aborted; one that had already completed keeps its result
Cancel(q) ==
  [i \in DOMAIN q |->
     IF q[i].status = "pending" THEN [q[i] EXCEPT !.status = "aborted"]
     ELSE q[i]]

\* faulty variant: only end of stream counts as a failure
FailedOnlyOnEof(status) == status = "eof"

\* error.failed()
Failed(status) == status # "ok"

\* faulty variant: the socket is cancelled, shut down and closed regardless
AlwaysRelease(open) == TRUE

\* if (sock_.is_open())
ReleaseGuard(open) == open

\* faulty variant: the slot is not disconnected
StayConnected(c) == c

\* closeConnection.disconnect(): the slot calling mainClose is gone
ConnectedAfterClose(c) == FALSE

\* SessionImp::close() with q the operations outstanding when it runs
close(q) ==
  /\ closeCalls' = closeCalls + 1
  /\ sockReleases' = IF ReleaseGuard(sockOpen) THEN sockReleases + 1
                     ELSE sockReleases
  /\ ops' = IF ReleaseGuard(sockOpen) THEN Cancel(q) ELSE q
  /\ sockOpen' = FALSE
  /\ notified' = IF connected THEN notified + 1 ELSE notified
  /\ connected' = ConnectedAfterClose(connected)

\* the record kept of a run of operator(): the branch taken, the buffer it
\* found (buf), req_ when the read behind it was issued (pre) and the bytes
\* that read transferred (n), the frames passed to the handler, the ignored
\* count, the operations issued, whether close() had run before and ran in
\* it, the handler's result, and req_ afterwards
NoEvent ==
  [branch |-> "none", buf |-> <<>>, pre |-> <<>>, n |-> 0,
   handled |-> <<>>, ignored |-> 0, issued |-> <<>>, closedBefore |-> FALSE,
   closedHere |-> FALSE, impl |-> "none", path |-> "none",
   failed |-> FALSE, out |-> <<>>, object |-> NoObject, reqAfter |-> <<>>,
   calls |-> <<>>, resBefore |-> <<>>]

\* the operations a run of operator() added to those left outstanding
IssuedKinds(q, after) ==
  [k \in 1..(Len(after) - Len(q)) |-> after[Len(q) + k].kind]

\* faulty variant: no yield after the write, the loop goes on to read (with
\* the self it has already moved from)
WriteWithoutYield(q, wr, rd) == Append(Append(q, wr), rd)

\* yield asio::async_write(...): the write is started and operator() returns
OpsAfterDispatch(q, wr, rd) == Append(q, wr)

\* faulty variant: an empty response is not checked for
FatalOnlyOnError(failed, response) == failed

\* if (err.failed()) ... if (res_.empty()) ...: close the session
FatalResult(failed, response) == failed \/ response = <<>>

\* faulty variant: the response is written as the handler left it
WithoutDelimiter(response) == response

\* res_ += DATA_DELIMITER
AppendDelimiter(response) == response \o <<DATA_DELIMITER>>

\* faulty variant: the request buffer is not cleared after the write
KeepRequest(req) == req

\* req_.clear()
ClearedRequest(req) == <<>>

\* faulty variant: the destructor leaves the slot connected
KeepSlot(c) == c

\* ~Session: imp_->closeConnection.disconnect()
ConnectedAfterDestroy(c) == FALSE

Init ==
  /\ coro = "init"
  /\ req_ = <<>>
  /\ res_ = <<>>
  /\ sockOpen = TRUE
  /\ connected = TRUE
  /\ ownerAlive = TRUE
  /\ ops = <<>>
  /\ closeCalls = 0
  /\ sockReleases = 0
  /\ notified = 0
  /\ extCloses = 0
  /\ unwritten = FALSE
  /\ ev = NoEvent

\* Session::start() -> SessionImp::start(imp_): the first entry of the
\* coroutine, which issues the first read.  The owner starts a session once.
Start ==
  /\ ownerAlive
  /\ coro = "init"
  /\ coro' = "read"
  /\ ops' = Append(ops, Operation("read", sockOpen, req_, ownerAlive))
  /\ ev' = [NoEvent EXCEPT !.branch = "start",
                           !.issued = IssuedKinds(ops, ops'),
                           !.closedBefore = closeCalls > 0]
  /\ UNCHANGED <<req_, res_, sockOpen, connected, ownerAlive, closeCalls,
                 sockReleases, notified, extCloses, unwritten>>

\* Session::close() called by the owner of a started session
ExternalClose ==
  /\ ownerAlive
  /\ coro # "init"
  /\ extCloses < MaxExternalClose
  /\ extCloses' = extCloses + 1
  /\ close(ops)
  /\ UNCHANGED <<coro, req_, res_, ownerAlive, unwritten, ev>>

\* Session::~Session(): the slot is disconnected and the owner's reference to
\* the implementation is dropped; the operations outstanding keep theirs
DestroySession ==
  /\ ownerAlive
  /\ ownerAlive' = FALSE
  /\ connected' = ConnectedAfterDestroy(connected)
  /\ UNCHANGED <<coro, req_, res_, sockOpen, ops, closeCalls, sockReleases,
                 notified, extCloses, unwritten, ev>>

\* the I/O layer: async_read_until finishes once req_ holds a delimiter; the
\* bytes received (possibly beyond the delimiter) are already in req_
ReadCompletes(i, chunk) ==
  /\ ops[i].kind = "read"
  /\ ops[i].status = "pending"
  /\ IF HasDelimiter(req_) THEN chunk = <<>> ELSE HasDelimiter(chunk)
  /\ req_' = req_ \o chunk
  /\ ops' = [ops EXCEPT ![i].status = "ok", ![i].n = Len(chunk)]
  /\ UNCHANGED <<coro, res_, sockOpen, connected, ownerAlive, closeCalls,
                 sockReleases, notified, extCloses, unwritten, ev>>

\* the read ends with end-of-stream or another error before any delimiter
ReadFails(i, chunk, st) ==
  /\ ops[i].kind = "read"
  /\ ops[i].status = "pending"
  /\ ~HasDelimiter(req_ \o chunk)
  /\ req_' = req_ \o chunk
  /\ ops' = [ops EXCEPT ![i].status = st, ![i].n = Len(chunk)]
  /\ UNCHANGED <<coro, res_, sockOpen, connected, ownerAlive, closeCalls,
                 sockReleases, notified, extCloses, unwritten, ev>>

\* async_write with transfer_all: all of res_ was sent
WriteCompletes(i) ==
  /\ ops[i].kind = "write"
  /\ ops[i].status = "pending"
  /\ ops' = [ops EXCEPT ![i].status = "ok", ![i].n = Len(res_)]
  /\ UNCHANGED <<coro, req_, res_, sockOpen, connected, ownerAlive,
                 closeCalls, sockReleases, notified, extCloses, unwritten, ev>>

\* the write fails after n bytes
WriteFails(i, n, st) ==
  /\ ops[i].kind = "write"
  /\ ops[i].status = "pending"
  /\ n < Len(res_)
  /\ ops' = [ops EXCEPT ![i].status = st, ![i].n = n]
  /\ UNCHANGED <<coro, req_, res_, sockOpen, connected, ownerAlive,
                 closeCalls, sockReleases, notified, extCloses, unwritten, ev>>

\* res_ as operator() finds it: the dynamic buffer of a write has consumed
\* the bytes that were sent
Consumed(op) ==
  IF op.kind = "write" THEN SubSeq(res_, op.n + 1, Len(res_)) ELSE res_

\* operator()(self, error, transfered) with a failed error code: end of
\* stream, operation_aborted or any other error
CallbackError(i) ==
  /\ ops[i].status # "pending"
  /\ Failed(ops[i].status)
  /\ close(Remove(ops, i))
  /\ res_' = Consumed(ops[i])
  /\ ev' = [NoEvent EXCEPT !.branch = "error",
                           !.issued = IssuedKinds(Remove(ops, i), ops'),
                           !.closedBefore = closeCalls > 0,
                           !.closedHere = TRUE]
  /\ UNCHANGED <<coro, req_, ownerAlive, extCloses, unwritten>>

\* resumed after the read: Context::getHandlerFactory() or
\* factory->getRequestHandler() is null
CallbackNoHandler(i, why) ==
  /\ ops[i].status # "pending"
  /\ ~Failed(ops[i].status)
  /\ coro = "read"
  /\ close(Remove(ops, i))
  /\ coro' = "done"
  /\ res_' = Consumed(ops[i])
  /\ ev' = [NoEvent EXCEPT !.branch = why, !.buf = req_,
                           !.pre = ops[i].base,
                           !.issued = IssuedKinds(Remove(ops, i), ops'),
                           !.closedBefore = closeCalls > 0,
                           !.closedHere = TRUE, !.reqAfter = req_]
  /\ UNCHANGED <<req_, ownerAlive, extCloses, unwritten>>

\* resumed after the read, the buffer does not end with the delimiter: keep
\* the last token and read again
CallbackPartial(i) ==
  /\ ops[i].status # "pending"
  /\ ~Failed(ops[i].status)
  /\ coro = "read"
  /\ ~EndsWithDelimiter(req_)
  /\ LET tokens == Tokens(req_)
         last == LastRequest(tokens)
     IN /\ req_' = RetainPartial(req_, tokens[last.it])
        /\ ops' = Append(Remove(ops, i),
                         Operation("read", sockOpen, req_', ops[i].self))
        /\ ev' = [NoEvent EXCEPT !.branch = "partial", !.buf = req_,
                                 !.pre = ops[i].base,
                                 !.n = ops[i].n,
                                 !.ignored = last.ignoreRequestCounter,
                                 !.issued = IssuedKinds(Remove(ops, i), ops'),
                                 !.closedBefore = closeCalls > 0,
                                 !.reqAfter = req_']
  /\ res_' = Consumed(ops[i])
  /\ UNCHANGED <<coro, sockOpen, connected, ownerAlive, closeCalls,
                 sockReleases, notified, extCloses, unwritten>>

\* resumed after the read, the buffer ends with the delimiter: the last token
\* goes to the handler; a failure or an empty response closes the session,
\* otherwise the response and a delimiter are written
CallbackDispatch(i, impl, result) ==
  /\ ops[i].status # "pending"
  /\ ~Failed(ops[i].status)
  /\ coro = "read"
  /\ EndsWithDelimiter(req_)
  /\ result \in HandleResults(impl, DispatchedFrame(req_), Consumed(ops[i]))
  /\ unwritten' = TRUE
  /\ LET tokens == Tokens(req_)
         last == LastRequest(tokens)
         q == Remove(ops, i)
         event == [NoEvent EXCEPT !.buf = req_, !.pre = ops[i].base,
                     !.n = ops[i].n,
                     !.handled = <<tokens[last.it]>>,
                     !.ignored = last.ignoreRequestCounter,
                     !.closedBefore = closeCalls > 0,
                     !.impl = impl, !.path = result.path,
                     !.failed = result.failed, !.out = result.response,
                     !.object = result.object, !.reqAfter = req_,
                     !.calls = result.calls,
                     !.resBefore = Consumed(ops[i])]
     IN IF FatalResult(result.failed, result.response)
        THEN /\ close(q)
             /\ coro' = "done"
             /\ res_' = result.response
             /\ ev' = [event EXCEPT !.branch = "fatal",
                                    !.issued = IssuedKinds(q, ops'),
                                    !.closedHere = TRUE]
        ELSE /\ res_' = AppendDelimiter(result.response)
             /\ ops' = OpsAfterDispatch(q,
                          Operation("write", sockOpen, <<>>, ops[i].self),
                          Operation("read", sockOpen, <<>>, FALSE))
             /\ coro' = "write"
             /\ ev' = [event EXCEPT !.branch = "dispatch",
                                    !.issued = IssuedKinds(q, ops')]
             /\ UNCHANGED <<sockOpen, connected, closeCalls, sockReleases,
                            notified>>
  /\ UNCHANGED <<req_, ownerAlive, extCloses>>

\* resumed after the write: clear both buffers and read again (a coroutine
\* that has terminated does nothing when it is re-entered)
CallbackResume(i) ==
  /\ ops[i].status # "pending"
  /\ ~Failed(ops[i].status)
  /\ coro \in {"write", "done"}
  /\ IF coro = "done"
     THEN /\ ops' = Remove(ops, i)
          /\ res_' = Consumed(ops[i])
          /\ ev' = [NoEvent EXCEPT !.branch = "terminated",
                                   !.closedBefore = closeCalls > 0]
          /\ UNCHANGED <<coro, req_, unwritten>>
     ELSE /\ req_' = ClearedRequest(req_)
          /\ res_' = <<>>
          /\ ops' = Append(Remove(ops, i),
                           Operation("read", sockOpen, <<>>, ops[i].self))
          /\ coro' = "read"
          /\ unwritten' = IF ops[i].kind = "write" /\ ops[i].status = "ok"
                          THEN FALSE ELSE unwritten
          /\ ev' = [NoEvent EXCEPT !.branch = "written",
                                   !.issued = IssuedKinds(Remove(ops, i), ops'),
                                   !.closedBefore = closeCalls > 0,
                                   !.reqAfter = req_']
  /\ UNCHANGED <<sockOpen, connected, ownerAlive, closeCalls, sockReleases,
                 notified, extCloses>>

Next ==
  \/ Start
  \/ ExternalClose
  \/ DestroySession
  \/ \E i \in DOMAIN ops, chunk \in SeqsUpTo(Byte, MaxRead) :
       ReadCompletes(i, chunk)
  \/ \E i \in DOMAIN ops, chunk \in SeqsUpTo(Payload, MaxPartialIo),
        st \in {"eof", "err"} : ReadFails(i, chunk, st)
  \/ \E i \in DOMAIN ops : WriteCompletes(i)
  \/ \E i \in DOMAIN ops, n \in 0..MaxPartialIo, st \in {"eof", "err"} :
       WriteFails(i, n, st)
  \/ \E i \in DOMAIN ops : CallbackError(i)
  \/ \E i \in DOMAIN ops, why \in {"no_factory", "no_handler"} :
       CallbackNoHandler(i, why)
  \/ \E i \in DOMAIN ops : CallbackPartial(i)
  \/ \E i \in DOMAIN ops, impl \in {"hl", "other"} :
       \E result \in HandleResults(impl, DispatchedFrame(req_),
                                    Consumed(ops[i])) :
         CallbackDispatch(i, impl, result)
  \/ \E i \in DOMAIN ops : CallbackResume(i)

Spec == Init /\ [][Next]_vars

\* ------------------------------------------------------------ properties
\* what the claims speak of, computed from the bytes of the buffer alone

NumDelimiters(buf) ==
  Cardinality({i \in 1..Len(buf) : buf[i] = DATA_DELIMITER})

LastByteIsDelimiter(buf) ==
  Len(buf) >= 1 /\ buf[Len(buf)] = DATA_DELIMITER

\* position of the last delimiter before position e, 0 when there is none
DelimiterBefore(buf, e) ==
  LET S == {j \in 1..(e-1) : buf[j] = DATA_DELIMITER}
  IN IF S = {} THEN 0 ELSE CHOOSE j \in S : \A k \in S : k <= j

\* the frame the final delimiter of buf terminates
LastFrameOf(buf) ==
  SubSeq(buf, DelimiterBefore(buf, Len(buf)) + 1, Len(buf) - 1)

\* the bytes after the last delimiter of buf
TrailingPartialOf(buf) ==
  SubSeq(buf, DelimiterBefore(buf, Len(buf) + 1) + 1, Len(buf))

\* the last run of operator() was resumed by a read that completed without
\* error, found a handler and split the buffer
SplitEvent == ev.branch \in {"dispatch", "fatal", "partial"}

\* the bytes the read behind a run of operator() appended
Received(e) == SubSeq(e.buf, Len(e.buf) - e.n + 1, Len(e.buf))

\* C1: when a read completes without error and the buffer ends with the
\* delimiter and holds k >= 1 frames, the handler is invoked exactly once,
\* with the last frame, the response is the one for that frame only, and the
\* ignored count is k - 1.
C1_LatestWins ==
  (SplitEvent /\ LastByteIsDelimiter(ev.buf)) =>
     /\ ev.branch # "partial"
     /\ ev.handled = <<LastFrameOf(ev.buf)>>
     /\ ev.ignored = NumDelimiters(ev.buf) - 1
     /\ ev.impl = "hl" => ev.out = handle(LastFrameOf(ev.buf), <<>>).response

C1_Witness ==
  /\ ev.branch = "dispatch"
  /\ ev.buf = <<"a", DATA_DELIMITER, "b", DATA_DELIMITER>>
  /\ ev.handled = <<(<<"b">>)>>
  /\ ev.ignored = 1

\* C2: when a read completes without error and the last byte of the buffer
\* is not the delimiter, the handler is not invoked, no write is issued and
\* no response produced, the read buffer becomes the bytes after the last
\* delimiter, and a new read is issued.
C2_PartialRetention ==
  (SplitEvent /\ ~LastByteIsDelimiter(ev.buf)) =>
     /\ ev.branch = "partial"
     /\ ev.handled = <<>>
     /\ ev.issued = <<"read">>
     /\ ev.reqAfter = TrailingPartialOf(ev.buf)
     /\ res_ = <<>>
     /\ coro = "read"

C2_Witness ==
  /\ ev.branch = "partial"
  /\ NumDelimiters(ev.buf) >= 2
  /\ ev.reqAfter = <<"a">>
  /\ \E i \in DOMAIN ops : ops[i].kind = "read" /\ ops[i].status = "pending"
  /\ req_ = <<"a">>

\* C3: after a partial segment P was retained from a buffer, when the next
\* read appends bytes R whose only delimiter is their last byte, exactly one
\* frame is dispatched, and it is P followed by R without that delimiter.
C3_PartialCompletion ==
  [][(/\ ev.branch = "partial"
      /\ ev' # ev
      /\ ev'.branch \in {"dispatch", "fatal", "partial"}
      /\ LastByteIsDelimiter(Received(ev'))
      /\ NumDelimiters(Received(ev')) = 1) =>
        ev'.handled =
          <<TrailingPartialOf(ev.buf)
              \o SubSeq(Received(ev'), 1, Len(Received(ev')) - 1)>>]_vars

C3_Witness ==
  /\ ev.branch = "dispatch"
  /\ ev.pre = <<"b">>
  /\ Received(ev) = <<"a", DATA_DELIMITER>>
  /\ ev.handled = <<(<<"b", "a">>)>>

\* C4 as stated: the frame passed to the handler is never empty.
C4_NeverEmptyFrame ==
  \A k \in DOMAIN ev.handled : ev.handled[k] # <<>>

\* C4 as amended: the segment after the final delimiter is never dispatched;
\* the frame passed to the handler is the one the final delimiter
\* terminates, and it is empty exactly when the buffer is the delimiter alone
\* or ends with two delimiters.
C4_EmptyFrameOnlyBeforeDelimiter ==
  \A k \in DOMAIN ev.handled :
     /\ LastByteIsDelimiter(ev.buf)
     /\ ev.handled[k] = <<>> <=>
          (Len(ev.buf) = 1 \/ ev.buf[Len(ev.buf) - 1] = DATA_DELIMITER)

C4_Witness ==
  /\ ev.branch = "dispatch"
  /\ ev.buf = <<DATA_DELIMITER>>
  /\ ev.handled = <<(<<>>)>>

\* C5: close() invoked twice in sequence yields exactly one notification,
\* and an invocation after the first neither touches the transport nor
\* notifies.
C5_IdempotentClose ==
  /\ [](extCloses >= 2 => (notified = 1 /\ sockReleases = 1))
  /\ [][(closeCalls >= 1 /\ closeCalls' > closeCalls) =>
          /\ notified' = notified
          /\ sockReleases' = sockReleases
          /\ sockOpen' = sockOpen
          /\ \A j \in DOMAIN ops' :
               ops'[j].status = "aborted" =>
                 \E i \in DOMAIN ops : ops[i].status = "aborted"]_vars

C5_Witness ==
  /\ extCloses = 2
  /\ closeCalls = 2
  /\ notified = 1
  /\ sockReleases = 1

\* C6: while the owning Session exists, a session that has been closed, by
\* whatever path or interleaving of paths, has notified its owner exactly
\* once; the owner is never notified twice, and never before a close.
C6_NotifiedExactlyOnce ==
  /\ notified <= 1
  /\ closeCalls = 0 => notified = 0
  /\ (ownerAlive /\ (closeCalls >= 1 \/ ~sockOpen)) => notified = 1

C6_Witness ==
  /\ ownerAlive
  /\ extCloses >= 1
  /\ ev.branch = "error"
  /\ ev.closedBefore
  /\ closeCalls >= 2
  /\ notified = 1

\* C7: no read is outstanding or waiting for delivery while a dispatched
\* frame's write has not completed successfully.
C7_NoReadBeforeWriteCompletes ==
  \A i \in DOMAIN ops : ops[i].kind = "read" => ~unwritten

C7_Witness ==
  /\ ev.branch = "written"
  /\ ~unwritten
  /\ \E i \in DOMAIN ops : ops[i].kind = "read" /\ ops[i].status = "pending"

\* C8: at most one asynchronous operation is outstanding, never a read and
\* a write together, and a run of operator() issues at most one.
C8_HalfDuplex ==
  /\ Len(ops) <= 1
  /\ Len(ev.issued) <= 1
  /\ ~(\E i, j \in DOMAIN ops : ops[i].kind = "read" /\ ops[j].kind = "write")

C8_Witness ==
  /\ Len(ops) = 1
  /\ ops[1].kind = "write"
  /\ ops[1].status = "pending"
  /\ ev.issued = <<"write">>

\* C9 as stated: once close() has run, no frame is dispatched and no read or
\* write is issued.
C9_ClosedIsTerminal ==
  ev.closedBefore => (ev.handled = <<>> /\ ev.issued = <<>>)

\* C10: for a frame that fails parsing, names an unregistered type or whose
\* tokenizer reports a failure, handle() returns no error and the serialized
\* failure response; the session writes it instead of closing, and after the
\* write it reads again.
C10_PayloadFailureKeepsConnection ==
  /\ (ev.impl = "hl" /\ ev.path \in {"parse_error", "unknown_type", "tokenizer"})
       => /\ ~ev.failed
          /\ ev.object.return_code = FAILURE_CODE
          /\ ev.out = Dump(ev.object)
          /\ ev.out # <<>> =>
               /\ ev.branch = "dispatch"
               /\ ev.issued = <<"write">>
               /\ ~ev.closedHere
  /\ ev.branch = "written" => (ev.issued = <<"read">> /\ ~ev.closedHere)

C10_Witness ==
  /\ ev.branch = "dispatch"
  /\ ev.impl = "hl"
  /\ ev.path = "tokenizer"
  /\ ev.handled = <<(<<"a", "b">>)>>
  /\ \E i \in DOMAIN ops : ops[i].kind = "write" /\ ops[i].status = "pending"

\* C11: a handler result with a failing error code, or with an empty output,
\* closes the session and issues no write; a frame for which a write is
\* issued had no handler error and a non-empty output.
C11_FatalDispatchResult ==
  /\ (ev.handled # <<>> /\ (ev.failed \/ ev.out = <<>>)) =>
        /\ ev.branch = "fatal"
        /\ ev.closedHere
        /\ ev.issued = <<>>
        /\ ~sockOpen
        /\ closeCalls >= 1
        /\ \A i \in DOMAIN ops : ops[i].kind # "write"
  /\ (ev.handled # <<>> /\ ev.issued # <<>>) =>
        /\ ~ev.failed
        /\ ev.out # <<>>
        /\ ev.issued = <<"write">>

C11_Witness ==
  /\ ev.branch = "fatal"
  /\ ev.impl = "other"
  /\ ~ev.failed
  /\ ev.out = <<>>
  /\ ~sockOpen
  /\ ops = <<>>

\* C12: a completion delivered with end of stream, operation_aborted or any
\* other error makes the session run close(), dispatch nothing (whatever the
\* buffer holds) and issue nothing; the state reached does not depend on
\* which error it was.
C12_IoErrorCloses ==
  [][(/\ Len(ops) = 1
      /\ ops[1].status \in {"eof", "err", "aborted"}
      /\ (ev' # ev \/ ops' # ops)) =>
        /\ ev'.branch = "error"
        /\ ev'.handled = <<>>
        /\ ev'.issued = <<>>
        /\ closeCalls' = closeCalls + 1
        /\ ~sockOpen'
        /\ ~connected'
        /\ ops' = <<>>
        /\ req_' = req_
        /\ coro' = coro]_vars

C12_Witness ==
  /\ ev.branch = "error"
  /\ LastByteIsDelimiter(req_)
  /\ coro = "write"
  /\ ~sockOpen
  /\ ops = <<>>

\* the frame the repository's RequestHandler handled in the last run, parsed
HandledByHl == ev.handled # <<>> /\ ev.impl = "hl"
HandledRequest == ParseRequest(ev.handled[1])

\* C13: for a frame that fails to parse, handle() serialises exactly one
\* response: sequence number 0, id 0, empty type and name, status failure,
\* the parse error text as message, no tokens; the tokenizer factory is not
\* asked and no tokenizer is called.
C13_MalformedInput ==
  (HandledByHl /\ HandledRequest.thrown) =>
     /\ ev.object.msg_num = 0
     /\ ev.object.id = 0
     /\ ev.object.buf_type = ""
     /\ ev.object.buf_name = ""
     /\ ev.object.return_code = FAILURE_CODE
     /\ ev.object.error_message = HandledRequest.what
     /\ ev.object.tokens = <<>>
     /\ ev.out = Dump(ev.object)
     /\ ev.calls = <<>>

C13_Witness ==
  /\ HandledByHl
  /\ HandledRequest.thrown
  /\ ev.path = "parse_error"
  /\ ev.branch = "dispatch"
  /\ ev.out # <<>>

\* C14: for a frame that parses but names a type without a tokenizer, the
\* response echoes the request's sequence number, id, type and name, has
\* status failure, a message containing the declared type and no tokens; no
\* tokenizer is called.
C14_UnknownType ==
  (/\ HandledByHl
   /\ ~HandledRequest.thrown
   /\ HandledRequest.request.buf_type \notin RegisteredTypes) =>
     LET rq == HandledRequest.request IN
     /\ ev.object.msg_num = rq.msg_num
     /\ ev.object.id = rq.id
     /\ ev.object.buf_type = rq.buf_type
     /\ ev.object.buf_name = rq.buf_name
     /\ ev.object.return_code = FAILURE_CODE
     /\ \E k \in DOMAIN ev.object.error_message :
           ev.object.error_message[k] = rq.buf_type
     /\ ev.object.tokens = <<>>
     /\ ev.out = Dump(ev.object)
     /\ ev.calls = <<"getTokenizer">>

C14_Witness ==
  /\ HandledByHl
  /\ ~HandledRequest.thrown
  /\ HandledRequest.request.buf_type = "xyz"
  /\ ev.path = "unknown_type"
  /\ ev.branch = "dispatch"

\* C15: for a frame of a registered type the response echoes the request's
\* sequence number, id, type and name; its status is success exactly when
\* the tokenizer's status text is empty, its message is that text, and its
\* tokens are exactly the tokenizer's, a partial list on failure included.
C15_ProcessorResultMapping ==
  (/\ HandledByHl
   /\ ~HandledRequest.thrown
   /\ HandledRequest.request.buf_type \in RegisteredTypes) =>
     LET rq == HandledRequest.request
         tokenized == Tokenize(rq.buf_body)
     IN /\ ev.object.msg_num = rq.msg_num
        /\ ev.object.id = rq.id
        /\ ev.object.buf_type = rq.buf_type
        /\ ev.object.buf_name = rq.buf_name
        /\ ev.object.return_code \in {SUCCESS_CODE, FAILURE_CODE}
        /\ ev.object.return_code = SUCCESS_CODE <=> tokenized.status = <<>>
        /\ ev.object.error_message = tokenized.status
        /\ ev.object.tokens = tokenized.tokens
        /\ ev.out = Dump(ev.object)
        /\ ev.calls = <<"getTokenizer", "tokenize">>

C15_Witness ==
  /\ HandledByHl
  /\ ev.path = "tokenizer"
  /\ ev.object.return_code = FAILURE_CODE
  /\ ev.object.error_message # <<>>
  /\ ev.object.tokens # <<>>

\* C16: the response buffer is empty whenever the handler is invoked, and
\* the bytes handed to the write are the handler's output for that frame
\* followed by exactly one delimiter.
C16_WireForm ==
  /\ ev.handled # <<>> => ev.resBefore = <<>>
  /\ ev.branch = "dispatch" =>
        /\ res_ = ev.out \o <<DATA_DELIMITER>>
        /\ NumDelimiters(res_) = 1
        /\ ev.impl = "hl" => ev.out = Dump(ev.object)
        /\ \E i \in DOMAIN ops : ops[i].kind = "write"

C16_Witness ==
  /\ ev.branch = "dispatch"
  /\ ev.impl = "hl"
  /\ ev.path = "ok"
  /\ Len(res_) = Len(ev.out) + 1
  /\ Len(ops) = 1
  /\ ops[1].kind = "write"
  /\ ops[1].status = "pending"

\* C17 as stated: once a processing step has dispatched a frame the read
\* buffer is empty, and once it has dispatched none the buffer is the last
\* partial segment.
C17_ClearedAtDispatch ==
  /\ ev.branch = "dispatch" => ev.reqAfter = <<>>
  /\ ev.branch = "partial" => ev.reqAfter = TrailingPartialOf(ev.buf)

\* C17, amended: a step that dispatched a frame leaves the whole buffer in
\* place while the write is outstanding; the buffer is cleared when the
\* write has completed, before the next read is issued.  A step that
\* dispatched nothing leaves exactly the last partial segment.
C17_ClearedAfterWrite ==
  /\ ev.branch = "dispatch" =>
        /\ ev.reqAfter = ev.buf
        /\ req_ = ev.buf
        /\ LastByteIsDelimiter(req_)
  /\ ev.branch = "written" =>
        /\ ev.reqAfter = <<>>
        /\ req_ = <<>> \/ \A i \in DOMAIN ops : ops[i].status # "pending"
  /\ ev.branch = "partial" => ev.reqAfter = TrailingPartialOf(ev.buf)

C17_Witness ==
  /\ ev.branch = "dispatch"
  /\ req_ # <<>>
  /\ Len(ops) = 1
  /\ ops[1].kind = "write"
  /\ ops[1].status = "pending"

\* C18: every outstanding read or write holds a live shared reference to the
\* SessionImp, so the object's use count is positive while an operation is
\* outstanding, whether or not the owning Session still exists.
C18_KeepAlive ==
  \A i \in DOMAIN ops :
     /\ ops[i].self
     /\ ImpRefs >= 1

C18_Witness ==
  /\ ~ownerAlive
  /\ Len(ops) = 1
  /\ ops[1].status = "pending"
  /\ ops[1].self
  /\ ev.branch \in {"partial", "written"}
  /\ ImpRefs = 1

\* C19: every read is issued with no delimiter in the read buffer, so a read
\* that completes without error has received at least one byte and a
\* delimiter among the bytes received.
C19_ReadIssuedWithoutDelimiter ==
  /\ \A i \in DOMAIN ops :
        ops[i].kind = "read" =>
          /\ ~HasDelimiter(ops[i].base)
          /\ ops[i].status = "ok" =>
                /\ ops[i].n >= 1
                /\ HasDelimiter(SubSeq(req_, Len(req_) - ops[i].n + 1,
                                       Len(req_)))
  /\ SplitEvent =>
        /\ ~HasDelimiter(ev.pre)
        /\ ev.n >= 1
        /\ HasDelimiter(Received(ev))

C19_Witness ==
  /\ ev.branch = "dispatch"
  /\ ev.pre # <<>>
  /\ ev.n >= 1
  /\ ev.buf = ev.pre \o Received(ev)

\* C20: once the owning Session has been destroyed, no step invokes the
\* owner's closed signal, whatever the SessionImp does afterwards.
C20_NoNotifyAfterOwnerDestroyed ==
  [][~ownerAlive => (notified' = notified /\ ~connected')]_vars

C20_Witness ==
  /\ ~ownerAlive
  /\ closeCalls >= 1
  /\ notified = 0
  /\ ev.branch \in {"error", "fatal"}
  /\ ev.closedHere

====
